---------------------------- MODULE Spec2Model ----------------------------
(***************************************************************************)
(* Model of src/app.py: the cam design script.  One run of the script      *)
(* reads the sidebar widgets, validates the near-dwell angle, reads the    *)
(* compute button and, when it was pressed, synthesises the follower       *)
(* motion (s, v, a), transforms it into the cam profile (x, y) and builds  *)
(* the exported table.  Every widget interaction starts a new run.         *)
(*                                                                         *)
(* Numbers.  Angles are exact rationals: an angle is held as an integer    *)
(* number of ticks, one tick being 1/Den of a degree, Den = NumSamples-1,  *)
(* so that every value of np.linspace(0, 360, NumSamples) and every        *)
(* integer widget angle is an integer.  Lengths, speeds and the values of  *)
(* sin and cos are fixed-point numbers with Scale units per 1.0.  sin and  *)
(* cos take their argument as an exact fraction of a quarter turn and are  *)
(* exact at the multiples of a quarter turn; elsewhere they are the Taylor *)
(* polynomial rounded to 1/Scale.  Rounding of the order of the float64    *)
(* epsilon is below the resolution of the model.                           *)
(***************************************************************************)
EXTENDS Integers, Sequences, FiniteSets, TLC

\* number of entries of np.linspace(0, 360, 1000), scaled down
NumSamples == 37
\* fixed-point units per 1.0
Scale == 10000

Den == NumSamples - 1

\* degrees -> ticks
Deg(d) == d * Den

--------------------------------------------------------------------------
\* Fixed-point arithmetic

Abs(i) == IF i < 0 THEN -i ELSE i
Sgn(i) == IF i < 0 THEN -1 ELSE 1

\* a / b rounded to the nearest integer, b > 0
RDiv(i, j) == (2 * i + j) \div (2 * j)

\* product of two fixed-point numbers
MulAbs(i, j) ==
    LET iH == i \div Scale
        iL == i % Scale
        jH == j \div Scale
        jL == j % Scale
    IN  iH * jH * Scale + iH * jL + iL * jH + RDiv(iL * jL, Scale)

Mul(i, j) == Sgn(i) * Sgn(j) * MulAbs(Abs(i), Abs(j))

\* quotient of two fixed-point numbers, j > 0
Div(i, j) ==
    LET m == Abs(i)
    IN  Sgn(i) * ((m \div j) * Scale + RDiv((m % j) * Scale, j))

Pi == RDiv(31416 * Scale, 10000)
PiHalf == RDiv(15708 * Scale, 10000)
TwoPi == RDiv(62832 * Scale, 10000)

\* np.deg2rad of a whole number of degrees
deg2rad(d) == RDiv(d * Pi, 180)

\* sin x for a fixed-point x in [0, pi/2]
SinTaylor(xx) ==
    LET x2 == Mul(xx, xx)
        t4 == Scale - RDiv(x2, 72)
        t3 == Scale - RDiv(Mul(x2, t4), 42)
        t2 == Scale - RDiv(Mul(x2, t3), 20)
        t1 == Scale - RDiv(Mul(x2, t2), 6)
    IN  Mul(xx, t1)

\* sin((pi/2) * P / Q), Q > 0
SinQ(P, Q) ==
    LET m    == Abs(P)
        quad == (m \div Q) % 4
        r    == m % Q
        num  == IF quad \in {0, 2} THEN r ELSE Q - r
        mag  == IF r = 0
                THEN (IF quad \in {0, 2} THEN 0 ELSE Scale)
                ELSE SinTaylor(RDiv(PiHalf * num, Q))
    IN  Sgn(P) * (IF quad < 2 THEN mag ELSE -mag)

\* np.sin(2 * np.pi * p / q) and np.cos(2 * np.pi * p / q)
SinTurn(p, q) == SinQ(4 * p, q)
CosTurn(p, q) == SinQ(4 * p + q, q)

\* np.sin(np.deg2rad(t)) and np.cos(np.deg2rad(t)), t in ticks
SinDeg(t) == SinTurn(t, Deg(360))
CosDeg(t) == CosTurn(t, Deg(360))

--------------------------------------------------------------------------
VARIABLES
    r0, h, n, e, k,                     \* sidebar "basic parameters"
    theta_ri, theta_fa, theta_re,       \* sidebar "motion angle parameters"
    clicked,                            \* the button was pressed for this run
    pc,                                 \* position of the run in the script
    theta_n,                            \* near-dwell angle
    calculate_btn,
    outcome,                            \* what the page shows
    theta_total,
    theta_rise, theta_dwell1, theta_return, theta_dwell2,
    s, v, a,
    x, y,
    df

widgets == <<r0, h, n, e, k, theta_ri, theta_fa, theta_re>>
phases  == <<theta_rise, theta_dwell1, theta_return, theta_dwell2>>
motion  == <<theta_total, phases, s, v, a>>
profile == <<x, y>>
vars    == <<widgets, clicked, pc, theta_n, calculate_btn, outcome,
             motion, profile, df>>


--------------------------------------------------------------------------
\* Sidebar widgets: the values st.number_input accepts

r0_range       == 10 .. 200
h_range        == 5 .. 100
n_range        == 10 .. 1000
e_range        == 0 .. 50
k_range        == {1, -1}
theta_ri_range == 10 .. 180
theta_fa_range == 0 .. 180
theta_re_range == 10 .. 180

\* the values the user enters in the model
R0Values      == {10, 50}
HValues       == {5, 20}
NValues       == {30, 100}
EValues       == {0, 20}
ThetaRiValues == {45, 90, 180}
ThetaFaValues == {0, 60, 180}
ThetaReValues == {45, 90, 180}

\* theta_n = 360 - (theta_ri + theta_fa + theta_re)
NearDwell(ri, fa, re) == 360 - (ri + fa + re)

\* the comparison of the validity check turned round
Invalid_SignSlip(tn) == tn > 0

\* if theta_n < 0: st.error(...); st.stop()
Invalid(tn) == tn < 0

--------------------------------------------------------------------------
\* Motion law.  t is a sampled angle in ticks.

\* np.linspace(0, 360, NumSamples)
linspace == [i \in 1 .. NumSamples |-> 360 * (i - 1)]

\* p / q as a fixed-point number
Ratio(p, q) == RDiv(p * Scale, q)

omega == RDiv(TwoPi * n, 60)

beta_rise   == deg2rad(theta_ri)
beta_return == deg2rad(theta_re)

\* the return phase taken to start where the rise ends
theta_return_start_NoDwell == Deg(theta_ri)

theta_return_start == Deg(theta_ri + theta_fa)

\* the far-dwell mask closed at its upper end
InDwell1_Closed(t) == t >= Deg(theta_ri) /\ t <= Deg(theta_ri + theta_fa)

\* the near-dwell mask open at 360
InDwell2_Open(t) == t >= Deg(theta_ri + theta_fa + theta_re) /\ t < Deg(360)

\* the rise displacement without the division of the sine by 2 pi
S_rise_NoTwoPi(t) ==
    h * (Ratio(t, Deg(theta_ri)) - SinTurn(t, Deg(theta_ri)))

\* the rise velocity with sin written for cos
V_rise_Sin(t) ==
    Mul(Div(h * omega, beta_rise), Scale - SinTurn(t, Deg(theta_ri)))

\* the near dwell filled with the lift, as the far dwell is
S_dwell2_Lift(t) == h * Scale

\* the four masks
InRise(t)   == t < Deg(theta_ri)
InDwell1(t) == t >= Deg(theta_ri) /\ t < Deg(theta_ri + theta_fa)
InReturn(t) == /\ t >= Deg(theta_ri + theta_fa)
               /\ t < Deg(theta_ri + theta_fa + theta_re)
InDwell2(t) == t >= Deg(theta_ri + theta_fa + theta_re) /\ t <= Deg(360)

S_rise(t) ==
    h * (Ratio(t, Deg(theta_ri)) - Div(SinTurn(t, Deg(theta_ri)), TwoPi))
V_rise(t) ==
    Mul(Div(h * omega, beta_rise), Scale - CosTurn(t, Deg(theta_ri)))
A_rise(t) ==
    Mul(Div(Mul(TwoPi * h, Mul(omega, omega)), Mul(beta_rise, beta_rise)),
        SinTurn(t, Deg(theta_ri)))

S_dwell1(t) == h * Scale
V_dwell1(t) == 0
A_dwell1(t) == 0

S_return(t) ==
    LET phi == t - theta_return_start
    IN  h * (Scale - Ratio(phi, Deg(theta_re))
                   + Div(SinTurn(phi, Deg(theta_re)), TwoPi))
V_return(t) ==
    LET phi == t - theta_return_start
    IN  Mul(Div(h * omega, beta_return),
            -Scale + CosTurn(phi, Deg(theta_re)))
A_return(t) ==
    LET phi == t - theta_return_start
    IN  Mul(Div(Mul(-TwoPi * h, Mul(omega, omega)),
                Mul(beta_return, beta_return)),
            SinTurn(phi, Deg(theta_re)))

S_dwell2(t) == 0
V_dwell2(t) == 0
A_dwell2(t) == 0

\* the laws applied to every entry of a phase's array of angles th
s_rise(th) == [i \in 1 .. Len(th) |-> S_rise(th[i])]
v_rise(th) == [i \in 1 .. Len(th) |-> V_rise(th[i])]
a_rise(th) == [i \in 1 .. Len(th) |-> A_rise(th[i])]

s_dwell1(th) == [i \in 1 .. Len(th) |-> S_dwell1(th[i])]
v_dwell1(th) == [i \in 1 .. Len(th) |-> V_dwell1(th[i])]
a_dwell1(th) == [i \in 1 .. Len(th) |-> A_dwell1(th[i])]

s_return(th) == [i \in 1 .. Len(th) |-> S_return(th[i])]
v_return(th) == [i \in 1 .. Len(th) |-> V_return(th[i])]
a_return(th) == [i \in 1 .. Len(th) |-> A_return(th[i])]

s_dwell2(th) == [i \in 1 .. Len(th) |-> S_dwell2(th[i])]
v_dwell2(th) == [i \in 1 .. Len(th) |-> V_dwell2(th[i])]
a_dwell2(th) == [i \in 1 .. Len(th) |-> A_dwell2(th[i])]

\* the far dwell and the return concatenated in the wrong order
concatenate_Swapped(p1, p2, p3, p4) == p1 \o p3 \o p2 \o p4

\* np.concatenate((p1, p2, p3, p4))
concatenate(p1, p2, p3, p4) == p1 \o p2 \o p3 \o p4

--------------------------------------------------------------------------
\* Profile.  i is an index of theta_total.

\* the clockwise branch with the radial term mirrored
X_CwMirrored(i) ==
    IF k = -1
    THEN - Mul(r0 * Scale + s[i], SinDeg(theta_total[i]))
             + e * CosDeg(theta_total[i])
    ELSE Mul(r0 * Scale + s[i], SinDeg(theta_total[i]))
             - e * CosDeg(theta_total[i])

X(i) ==
    IF k = -1
    THEN Mul(r0 * Scale + s[i], SinDeg(theta_total[i]))
             + e * CosDeg(theta_total[i])
    ELSE Mul(r0 * Scale + s[i], SinDeg(theta_total[i]))
             - e * CosDeg(theta_total[i])

Y(i) ==
    IF k = -1
    THEN Mul(r0 * Scale + s[i], CosDeg(theta_total[i]))
             - e * SinDeg(theta_total[i])
    ELSE Mul(r0 * Scale + s[i], CosDeg(theta_total[i]))
             + e * SinDeg(theta_total[i])

\* one row of the DataFrame
Row(i) == <<theta_total[i], s[i], v[i], a[i], x[i], y[i]>>

--------------------------------------------------------------------------
\* The run

Cleared ==
    /\ theta_n' = 0
    /\ calculate_btn' = FALSE
    /\ outcome' = "none"
    /\ theta_total' = <<>>
    /\ theta_rise' = <<>>
    /\ theta_dwell1' = <<>>
    /\ theta_return' = <<>>
    /\ theta_dwell2' = <<>>
    /\ s' = <<>>
    /\ v' = <<>>
    /\ a' = <<>>
    /\ x' = <<>>
    /\ y' = <<>>
    /\ df' = <<>>

Init ==
    /\ r0 = 50
    /\ h = 20
    /\ n = 100
    /\ e = 0
    /\ k = 1
    /\ theta_ri = 90
    /\ theta_fa = 60
    /\ theta_re = 90
    /\ clicked = FALSE
    /\ pc = "sidebar"
    /\ theta_n = 0
    /\ calculate_btn = FALSE
    /\ outcome = "none"
    /\ theta_total = <<>>
    /\ theta_rise = <<>>
    /\ theta_dwell1 = <<>>
    /\ theta_return = <<>>
    /\ theta_dwell2 = <<>>
    /\ s = <<>>
    /\ v = <<>>
    /\ a = <<>>
    /\ x = <<>>
    /\ y = <<>>
    /\ df = <<>>

Finished == pc \in {"done", "stopped"}

\* a widget interaction triggers a new run of the script
Rerun(press) ==
    /\ Finished
    /\ pc' = "sidebar"
    /\ clicked' = press
    /\ Cleared

SetR0 ==
    /\ \E val \in R0Values \cap r0_range : r0' = val
    /\ Rerun(FALSE)
    /\ UNCHANGED <<h, n, e, k, theta_ri, theta_fa, theta_re>>

SetH ==
    /\ \E val \in HValues \cap h_range : h' = val
    /\ Rerun(FALSE)
    /\ UNCHANGED <<r0, n, e, k, theta_ri, theta_fa, theta_re>>

SetN ==
    /\ \E val \in NValues \cap n_range : n' = val
    /\ Rerun(FALSE)
    /\ UNCHANGED <<r0, h, e, k, theta_ri, theta_fa, theta_re>>

SetE ==
    /\ \E val \in EValues \cap e_range : e' = val
    /\ Rerun(FALSE)
    /\ UNCHANGED <<r0, h, n, k, theta_ri, theta_fa, theta_re>>

SetK ==
    /\ \E val \in k_range : k' = val
    /\ Rerun(FALSE)
    /\ UNCHANGED <<r0, h, n, e, theta_ri, theta_fa, theta_re>>

SetThetaRi ==
    /\ \E val \in ThetaRiValues \cap theta_ri_range : theta_ri' = val
    /\ Rerun(FALSE)
    /\ UNCHANGED <<r0, h, n, e, k, theta_fa, theta_re>>

SetThetaFa ==
    /\ \E val \in ThetaFaValues \cap theta_fa_range : theta_fa' = val
    /\ Rerun(FALSE)
    /\ UNCHANGED <<r0, h, n, e, k, theta_ri, theta_re>>

SetThetaRe ==
    /\ \E val \in ThetaReValues \cap theta_re_range : theta_re' = val
    /\ Rerun(FALSE)
    /\ UNCHANGED <<r0, h, n, e, k, theta_ri, theta_fa>>

PressButton ==
    /\ Rerun(TRUE)
    /\ UNCHANGED widgets

\* lines 77-99: the sidebar reads the widgets and checks the near-dwell angle
Sidebar ==
    /\ pc = "sidebar"
    /\ theta_n' = NearDwell(theta_ri, theta_fa, theta_re)
    /\ IF Invalid(theta_n')
       THEN outcome' = "error" /\ pc' = "stopped"
       ELSE outcome' = outcome /\ pc' = "button"
    /\ UNCHANGED <<widgets, clicked, calculate_btn, motion, profile, df>>

\* line 105: calculate_btn = st.button(...)
Button ==
    /\ pc = "button"
    /\ calculate_btn' = clicked
    /\ pc' = "main"
    /\ UNCHANGED <<widgets, clicked, theta_n, outcome, motion, profile, df>>

\* lines 357-425: the help page
Help ==
    /\ pc = "main"
    /\ ~calculate_btn
    /\ outcome' = "help"
    /\ pc' = "done"
    /\ UNCHANGED <<widgets, clicked, theta_n, calculate_btn, motion,
                   profile, df>>

\* lines 114-161: the motion law over the four phases
Synthesize ==
    /\ pc = "main"
    /\ calculate_btn
    /\ theta_total' = linspace
    /\ theta_rise' = SelectSeq(theta_total', InRise)
    /\ theta_dwell1' = SelectSeq(theta_total', InDwell1)
    /\ theta_return' = SelectSeq(theta_total', InReturn)
    /\ theta_dwell2' = SelectSeq(theta_total', InDwell2)
    /\ s' = concatenate(s_rise(theta_rise'),
                        s_dwell1(theta_dwell1'),
                        s_return(theta_return'),
                        s_dwell2(theta_dwell2'))
    /\ v' = concatenate(v_rise(theta_rise'),
                        v_dwell1(theta_dwell1'),
                        v_return(theta_return'),
                        v_dwell2(theta_dwell2'))
    /\ a' = concatenate(a_rise(theta_rise'),
                        a_dwell1(theta_dwell1'),
                        a_return(theta_return'),
                        a_dwell2(theta_dwell2'))
    /\ pc' = "profile"
    /\ UNCHANGED <<widgets, clicked, theta_n, calculate_btn, outcome,
                   profile, df>>

\* lines 163-169: the profile; arrays of different lengths do not broadcast
Transform ==
    /\ pc = "profile"
    /\ IF Len(s) = Len(theta_total)
       THEN /\ x' = [i \in 1 .. Len(theta_total) |-> X(i)]
            /\ y' = [i \in 1 .. Len(theta_total) |-> Y(i)]
            /\ outcome' = outcome
            /\ pc' = "export"
       ELSE /\ UNCHANGED profile
            /\ outcome' = "exception"
            /\ pc' = "stopped"
    /\ UNCHANGED <<widgets, clicked, theta_n, calculate_btn, motion, df>>

\* lines 171-355: the table for download and the page with the results
Export ==
    /\ pc = "export"
    /\ df' = [i \in 1 .. Len(theta_total) |-> Row(i)]
    /\ outcome' = "results"
    /\ pc' = "done"
    /\ UNCHANGED <<widgets, clicked, theta_n, calculate_btn, motion,
                   profile>>

Next ==
    \/ SetR0
    \/ SetH
    \/ SetN
    \/ SetE
    \/ SetK
    \/ SetThetaRi
    \/ SetThetaFa
    \/ SetThetaRe
    \/ PressButton
    \/ Sidebar
    \/ Button
    \/ Help
    \/ Synthesize
    \/ Transform
    \/ Export

Spec == Init /\ [][Next]_vars

TypeOK ==
    /\ pc \in {"sidebar", "button", "main", "profile", "export", "done",
               "stopped"}
    /\ outcome \in {"none", "error", "help", "results", "exception"}
    /\ Len(theta_total) \in {0, NumSamples}

--------------------------------------------------------------------------
\* Vocabulary of the properties

Range(seq) == {seq[i] : i \in 1 .. Len(seq)}

AngleSum == theta_ri + theta_fa + theta_re

\* the motion arrays of this run exist
Synthesized == calculate_btn /\ pc \in {"profile", "export", "done"}

\* the profile arrays of this run exist
Transformed == calculate_btn /\ pc \in {"export", "done"}

NoSample ==
    /\ theta_total = <<>>
    /\ s = <<>>
    /\ v = <<>>
    /\ a = <<>>
    /\ x = <<>>
    /\ y = <<>>
    /\ df = <<>>

\* the motion law of the phase that contains the angle t
PhaseS(t) ==
    IF t < Deg(theta_ri) THEN S_rise(t)
    ELSE IF t < Deg(theta_ri + theta_fa) THEN S_dwell1(t)
    ELSE IF t < Deg(AngleSum) THEN S_return(t)
    ELSE S_dwell2(t)

PhaseV(t) ==
    IF t < Deg(theta_ri) THEN V_rise(t)
    ELSE IF t < Deg(theta_ri + theta_fa) THEN V_dwell1(t)
    ELSE IF t < Deg(AngleSum) THEN V_return(t)
    ELSE V_dwell2(t)

PhaseA(t) ==
    IF t < Deg(theta_ri) THEN A_rise(t)
    ELSE IF t < Deg(theta_ri + theta_fa) THEN A_dwell1(t)
    ELSE IF t < Deg(AngleSum) THEN A_return(t)
    ELSE A_dwell2(t)

\* the three internal phase boundaries and the two ends of the revolution
Boundaries ==
    {0, Deg(theta_ri), Deg(theta_ri + theta_fa), Deg(AngleSum), Deg(360)}

--------------------------------------------------------------------------
\* C1: when riseAngle + farDwellAngle + returnAngle > 360 the run never gets
\* past the validation, it ends in the error outcome, and no angle,
\* displacement, velocity, acceleration or profile sample exists at any
\* point of the run, also when the compute button was pressed for this run.
C1_InvalidAnglesNeverComputed ==
    AngleSum > 360 =>
        /\ pc \in {"sidebar", "stopped"}
        /\ pc = "stopped" => outcome = "error"
        /\ NoSample

C1_Witness ==
    /\ AngleSum > 360
    /\ clicked
    /\ pc = "stopped"
    /\ outcome = "error"

\* C2: no profile point is ever computed for a parameter set with
\* baseRadius <= 0 or offset > baseRadius.
C2_OffsetBeyondBaseRejected ==
    (r0 <= 0 \/ e > r0) => (x = <<>> /\ y = <<>>)

\* C3: for a valid parameter set every sampled angle is selected by exactly
\* one of the four phase masks.
C3_ExactlyOnePhase ==
    Synthesized =>
        \A i \in 1 .. Len(theta_total) :
            Cardinality({j \in 1 .. 4 :
                            theta_total[i] \in Range(phases[j])}) = 1

C3_Witness ==
    /\ Synthesized
    /\ AngleSum = 360
    /\ Deg(360) \in Range(theta_total)
    /\ Deg(360) \in Range(theta_dwell2)
    /\ theta_rise # <<>>
    /\ theta_return # <<>>

\* C4: the concatenated displacement, velocity and acceleration series have
\* as many entries as the angle series, their i-th entry is the law of the
\* phase of the i-th angle evaluated at that angle, and the i-th exported row
\* pairs the i-th angle with these values and with the i-th profile point.
C4_SamplesAligned ==
    /\ Synthesized =>
          /\ Len(s) = Len(theta_total)
          /\ Len(v) = Len(theta_total)
          /\ Len(a) = Len(theta_total)
          /\ \A i \in 1 .. Len(theta_total) :
                /\ s[i] = PhaseS(theta_total[i])
                /\ v[i] = PhaseV(theta_total[i])
                /\ a[i] = PhaseA(theta_total[i])
    /\ Transformed =>
          /\ Len(x) = Len(theta_total)
          /\ Len(y) = Len(theta_total)
          /\ \A i \in 1 .. Len(theta_total) :
                /\ x[i] = Mul(r0 * Scale + PhaseS(theta_total[i]),
                              SinDeg(theta_total[i]))
                              - k * e * CosDeg(theta_total[i])
                /\ y[i] = Mul(r0 * Scale + PhaseS(theta_total[i]),
                              CosDeg(theta_total[i]))
                              + k * e * SinDeg(theta_total[i])
    /\ pc = "done" /\ outcome = "results" =>
          /\ Len(df) = Len(theta_total)
          /\ \A i \in 1 .. Len(theta_total) :
                df[i] = <<theta_total[i], PhaseS(theta_total[i]),
                          PhaseV(theta_total[i]), PhaseA(theta_total[i]),
                          x[i], y[i]>>

C4_Witness ==
    /\ pc = "done"
    /\ outcome = "results"
    /\ theta_rise # <<>>
    /\ theta_dwell1 # <<>>
    /\ theta_return # <<>>
    /\ Len(theta_dwell2) > 1
    /\ Len(df) = NumSamples

\* C5: the velocity is 0 at the three internal phase boundaries and at both
\* ends of the revolution, in the phase the boundary angle is classified
\* into, and so is every entry of v whose angle is one of these.
C5_VelocityZeroAtBoundaries ==
    Synthesized =>
        /\ \A t \in Boundaries : PhaseV(t) = 0
        /\ Len(v) = Len(theta_total)
        /\ \A i \in 1 .. Len(theta_total) :
              theta_total[i] \in Boundaries => v[i] = 0

C5_Witness ==
    /\ Synthesized
    /\ theta_fa = 0
    /\ theta_n > 0
    /\ Deg(theta_ri) \in Range(theta_return)
    /\ Deg(AngleSum) \in Range(theta_dwell2)
    /\ \E i \in 1 .. Len(v) : v[i] # 0

\* C6: the displacement is continuous at the phase boundaries: the rise law
\* at the end of rise and the return law at its start equal lift, the return
\* law at its end equals 0, and the first and the last entry of s are 0.
C6_DisplacementContinuous ==
    Synthesized =>
        /\ S_rise(Deg(theta_ri)) = h * Scale
        /\ S_dwell1(Deg(theta_ri)) = h * Scale
        /\ S_return(Deg(theta_ri + theta_fa)) = h * Scale
        /\ S_return(Deg(AngleSum)) = 0
        /\ S_dwell2(Deg(AngleSum)) = 0
        /\ s # <<>>
        /\ s[1] = 0
        /\ s[Len(s)] = 0

C6_Witness ==
    /\ Synthesized
    /\ theta_fa > 0
    /\ theta_n > 0
    /\ \E i \in 1 .. Len(s) : s[i] = h * Scale
    /\ \E i \in 1 .. Len(s) : s[i] > 0 /\ s[i] < h * Scale

\* C7: every entry of the displacement series lies in [0, lift].
C7_DisplacementInRange ==
    Synthesized =>
        \A i \in 1 .. Len(s) : 0 <= s[i] /\ s[i] <= h * Scale

C7_Witness ==
    /\ Synthesized
    /\ Len(theta_rise) > 2
    /\ Len(theta_return) > 2
    /\ \E i \in 1 .. Len(s) : s[i] > 0 /\ s[i] < h * Scale

\* C8: with offset 0 the profile point of every sample is
\* ((baseRadius+s) sin(theta), (baseRadius+s) cos(theta)), whichever rotation
\* sense is selected.
C8_ZeroOffsetIgnoresSense ==
    Transformed /\ e = 0 =>
        \A i \in 1 .. Len(theta_total) :
            /\ x[i] = Mul(r0 * Scale + s[i], SinDeg(theta_total[i]))
            /\ y[i] = Mul(r0 * Scale + s[i], CosDeg(theta_total[i]))

C8_Witness ==
    /\ Transformed
    /\ e = 0
    /\ k = -1
    /\ \E i \in 1 .. Len(x) : x[i] # 0 /\ y[i] # 0

\* C9: the profile is closed: the point of the last sampled angle (360) is
\* the point of the first sampled angle (0).
C9_ProfileClosed ==
    Transformed =>
        /\ theta_total[1] = 0
        /\ theta_total[Len(theta_total)] = Deg(360)
        /\ x[Len(x)] = x[1]
        /\ y[Len(y)] = y[1]

C9_Witness ==
    /\ Transformed
    /\ theta_n = 0
    /\ e > 0
    /\ k = -1
    /\ Len(x) = NumSamples

\* C10 as stated: a phase of 0 degrees contributes no samples: no sampled
\* angle is far dwell when farDwellAngle = 0, and none is near dwell when
\* nearDwellAngle = 0.
C10_ZeroPhaseHasNoSamples ==
    Synthesized =>
        /\ theta_fa = 0 => theta_dwell1 = <<>>
        /\ theta_n = 0 => theta_dwell2 = <<>>

\* C10 amended: no sampled angle is far dwell when farDwellAngle = 0, and
\* when nearDwellAngle = 0 the closing sample 360 is the only sampled angle
\* that is near dwell.
C10_ZeroPhaseKeepsClosingSample ==
    Synthesized =>
        /\ theta_fa = 0 => theta_dwell1 = <<>>
        /\ theta_n = 0 => theta_dwell2 = <<Deg(360)>>

C10_Witness ==
    /\ Synthesized
    /\ theta_fa = 0
    /\ theta_n = 0
    /\ theta_dwell1 = <<>>
    /\ Deg(theta_ri) \in Range(theta_return)
    /\ theta_dwell2 = <<Deg(360)>>

==========================================================================
